---- MODULE Spec2Model ----
(***************************************************************************)
(* State-machine model of crossy_road_1hr.py: the world simulation         *)
(* (lanes, vehicles, logs, trains), the player state machine, the eagle    *)
(* and the Game orchestrator (handle_input / update).                      *)
(*                                                                         *)
(* Representation of the floats of the program:                            *)
(*   - pixel coordinates are fixed-point integers, PX units per pixel;     *)
(*   - times (dt, idle_time, train_timer) are integer milliseconds         *)
(*     (dt = clock.tick(FPS) / 1000.0 is a whole number of milliseconds);  *)
(*   - speeds are integers in 1/SpeedDen of the program's speed unit.      *)
(* Drawing, sound and the purely cosmetic fields (hop_phase, hop_height,   *)
(* direction, death_animation, wing_phase, camera, game_over_timer) are    *)
(* not part of the model: nothing in update or handle_input reads them.    *)
(***************************************************************************)
EXTENDS Integers, Sequences, FiniteSets, TLC

VARIABLES
    player,          \* Game.player   (Player)
    eagle,           \* Game.eagle    (Eagle)
    lanes,           \* Game.world.lanes : row -> Lane
    score,           \* Game.score
    max_y_reached,   \* Game.max_y_reached
    coins_collected, \* Game.coins_collected
    game_over,       \* Game.game_over
    high_score,      \* Game.high_score
    rng,             \* the pending draws of the random module, per lane row
    dt,              \* the dt of the current frame of Game.run, in ms
    frames,          \* number of Game.update calls of this session
    pc               \* position in the loop of Game.run: "frame" | "events"

vars == <<player, eagle, lanes, score, max_y_reached, coins_collected,
          game_over, high_score, rng, dt, frames, pc>>

----------------------------------------------------------------------------
\* Program constants

PX == 100
SpeedDen == 10
TILE_SIZE == 50
FPS == 60
WorldWidth == 16
StartX == 8
StartY == 2
MoveSpeed == 12
IdleLimit == 5
WarningTime == 1500
TrainSpeed == 8
TrainLength == 6
TruckLength == 2
EagleSpeed == 5
EagleCatchDist == 20
EagleOffX == 200
EagleOffY == 300
EagleRise == 5
EagleExitY == 200
LogTolerance == 10

TILE == TILE_SIZE * PX

LANE_GRASS == 0
LANE_ROAD == 1
LANE_WATER == 2
LANE_TRAIN == 3

----------------------------------------------------------------------------
\* Arithmetic helpers

Abs(a) == IF a < 0 THEN -a ELSE a

Max(a, b) == IF a >= b THEN a ELSE b

Min(a, b) == IF a <= b THEN a ELSE b

\* Python's int(a / b) for b > 0: truncation toward zero.
Trunc(a, b) == IF a >= 0 THEN a \div b ELSE -((-a) \div b)

RECURSIVE SqrtSearch(_, _, _)
SqrtSearch(n, lo, hi) ==
    IF lo >= hi THEN lo
    ELSE LET mid == (lo + hi + 1) \div 2
         IN IF mid * mid <= n THEN SqrtSearch(n, mid, hi)
            ELSE SqrtSearch(n, lo, mid - 1)

\* floor(math.sqrt(n)) for 0 <= n < 2^31
ISqrt(n) == SqrtSearch(n, 0, 46340)

\* speed * dt * 60, in fixed-point pixels (speed in 1/SpeedDen, d in ms)
Disp(speed, d) == (speed * d * FPS * PX) \div (SpeedDen * 1000)

\* The elements of a sequence, as a set
Range(s) == {s[i] : i \in 1..Len(s)}

\* [x for x in s if x not in drop], in order
RECURSIVE Without(_, _)
Without(s, drop) ==
    IF s = <<>> THEN <<>>
    ELSE IF Head(s) \in drop THEN Without(Tail(s), drop)
         ELSE <<Head(s)>> \o Without(Tail(s), drop)

\* list(range(n))
RangeSeq(n) == [i \in 1..n |-> i - 1]

----------------------------------------------------------------------------
\* Vehicle, Log

Vehicle(x, y, speed, vehicle_type) ==
    [x |-> x, y |-> y, speed |-> speed, type |-> vehicle_type,
     length |-> IF vehicle_type = "truck" THEN TruckLength
                ELSE IF vehicle_type = "train" THEN TrainLength
                ELSE 1]

Log(x, y, speed, length, is_lily) ==
    [x |-> x, y |-> y, speed |-> speed, length |-> length, is_lily |-> is_lily]

\* EntityUpdate wrapping by the length of the circuit, overshoot kept
EntityUpdateKeepOvershoot(e, d) ==
    LET x1 == e.x + Disp(e.speed, d)
        circuit == WorldWidth * TILE + 2 * TILE * e.length
    IN IF e.speed > 0 /\ x1 > WorldWidth * TILE + TILE * e.length
       THEN [e EXCEPT !.x = x1 - circuit]
       ELSE IF e.speed < 0 /\ x1 < -TILE * e.length
       THEN [e EXCEPT !.x = x1 + circuit]
       ELSE [e EXCEPT !.x = x1]

\* EntityUpdate turning the entity round at the edge instead of wrapping it
EntityUpdateBounce(e, d) ==
    LET x1 == e.x + Disp(e.speed, d)
    IN IF e.speed > 0 /\ x1 > WorldWidth * TILE + TILE * e.length
       THEN [e EXCEPT !.x = WorldWidth * TILE + TILE * e.length, !.speed = -e.speed]
       ELSE IF e.speed < 0 /\ x1 < -TILE * e.length
       THEN [e EXCEPT !.x = -TILE * e.length, !.speed = -e.speed]
       ELSE [e EXCEPT !.x = x1]

\* Vehicle.update and Log.update (the same code): advance, wrap at the edge
EntityUpdate(e, d) ==
    LET x1 == e.x + Disp(e.speed, d)
    IN IF e.speed > 0 /\ x1 > WorldWidth * TILE + TILE * e.length
       THEN [e EXCEPT !.x = -TILE * e.length]
       ELSE IF e.speed < 0 /\ x1 < -TILE * e.length
       THEN [e EXCEPT !.x = WorldWidth * TILE + TILE * e.length]
       ELSE [e EXCEPT !.x = x1]

VehicleUpdate(v, d) == EntityUpdate(v, d)

LogUpdate(l, d) == EntityUpdate(l, d)

\* pygame.Rect(left, top, w, h) of float arguments: truncated to whole pixels
RectOf(left, top, w, h) ==
    [left |-> Trunc(left, PX), top |-> Trunc(top, PX),
     w |-> Trunc(w, PX), h |-> Trunc(h, PX)]

\* pygame.Rect.colliderect
CollideRect(a, b) ==
    /\ a.w > 0 /\ a.h > 0 /\ b.w > 0 /\ b.h > 0
    /\ a.left < b.left + b.w
    /\ b.left < a.left + a.w
    /\ a.top < b.top + b.h
    /\ b.top < a.top + a.h

\* Vehicle.collides_with
CollidesWith(v, player_x, player_y) ==
    CollideRect(RectOf(player_x + 10 * PX, player_y + 10 * PX, 30 * PX, 30 * PX),
                RectOf(v.x + 5 * PX, v.y * TILE + 5 * PX,
                       TILE * v.length - 10 * PX, TILE - 10 * PX))

\* Log.player_on_log
PlayerOnLog(l, player_x, player_y) ==
    LET player_center_x == player_x + (TILE_SIZE \div 2) * PX
        log_left == l.x
        log_right == l.x + TILE * l.length
    IN /\ log_left - LogTolerance * PX < player_center_x
       /\ player_center_x < log_right + LogTolerance * PX

----------------------------------------------------------------------------
\* Lane

\* One lane's worth of draws of the random module (Lane.__init__ and
\* World._create_lane): roll is random.random() in percent, trees the result
\* of random.sample, coin_roll random.random() in percent, coin_pick the index
\* random.choice takes, speed the signed lane speed, starts the randint of
\* each vehicle, logs the (randint, is_lily, length) of each log, timer the
\* uniform(2, 5) of a train lane in ms.
Draw(roll, trees, coin_roll, coin_pick, speed, vtype, starts, logs, timer) ==
    [roll |-> roll, trees |-> trees, coin_roll |-> coin_roll,
     coin_pick |-> coin_pick, speed |-> speed, vtype |-> vtype,
     starts |-> starts, logs |-> logs, timer |-> timer]

GrassDraw(trees, coin_roll, coin_pick) ==
    Draw(0, trees, coin_roll, coin_pick, 0, "car", <<>>, <<>>, 0)

RoadDraw(speed, vtype, starts) ==
    Draw(30, <<>>, 99, 0, speed, vtype, starts, <<>>, 0)

WaterDraw(speed, logs) ==
    Draw(60, <<>>, 99, 0, speed, "car", <<>>, logs, 0)

TrainDraw(timer) ==
    Draw(85, <<>>, 99, 0, 0, "car", <<>>, <<>>, timer)

LogDraw(off, is_lily, len) == [off |-> off, is_lily |-> is_lily, len |-> len]

\* Rows the layout says nothing about are drawn as empty grass.
DefaultDraw == GrassDraw(<<>>, 99, 0)

DrawAt(r, y) == IF y \in DOMAIN r THEN r[y] ELSE DefaultDraw

\* Lane.__init__ before _generate_content
EmptyLane(y, lane_type) ==
    [y |-> y, type |-> lane_type, obstacles |-> <<>>, vehicles |-> <<>>,
     logs |-> <<>>, coins |-> <<>>, warning_active |-> FALSE,
     train_timer |-> 0, train |-> <<>>]

\* GenerateContent with the coin picked among all columns, trees included
GenerateContentCoinAnywhere(lane, d) ==
    IF lane.type = LANE_GRASS THEN
        LET positions == SubSeq(d.trees, 1, Min(Len(d.trees), WorldWidth))
            available == Without(RangeSeq(WorldWidth), Range(positions))
        IN [lane EXCEPT
              !.obstacles = positions,
              !.coins = IF d.coin_roll < 10 /\ available # <<>>
                        THEN <<RangeSeq(WorldWidth)[(d.coin_pick % WorldWidth) + 1]>>
                        ELSE <<>>]
    ELSE IF lane.type = LANE_ROAD THEN
        [lane EXCEPT !.vehicles =
            [i \in 1..Len(d.starts) |->
                Vehicle(d.starts[i] * TILE + (i - 1) * TILE * 4, lane.y,
                        d.speed, d.vtype)]]
    ELSE IF lane.type = LANE_WATER THEN
        [lane EXCEPT !.logs =
            [i \in 1..Len(d.logs) |->
                Log((i - 1) * TILE * 4 + d.logs[i].off * TILE, lane.y, d.speed,
                    IF d.logs[i].is_lily THEN 1 ELSE d.logs[i].len,
                    d.logs[i].is_lily)]]
    ELSE
        [lane EXCEPT !.train_timer = d.timer]

\* Lane._generate_content
GenerateContent(lane, d) ==
    IF lane.type = LANE_GRASS THEN
        LET positions == SubSeq(d.trees, 1, Min(Len(d.trees), WorldWidth))
            available == Without(RangeSeq(WorldWidth), Range(positions))
        IN [lane EXCEPT
              !.obstacles = positions,
              !.coins = IF d.coin_roll < 10 /\ available # <<>>
                        THEN <<available[(d.coin_pick % Len(available)) + 1]>>
                        ELSE <<>>]
    ELSE IF lane.type = LANE_ROAD THEN
        [lane EXCEPT !.vehicles =
            [i \in 1..Len(d.starts) |->
                Vehicle(d.starts[i] * TILE + (i - 1) * TILE * 4, lane.y,
                        d.speed, d.vtype)]]
    ELSE IF lane.type = LANE_WATER THEN
        [lane EXCEPT !.logs =
            [i \in 1..Len(d.logs) |->
                Log((i - 1) * TILE * 4 + d.logs[i].off * TILE, lane.y, d.speed,
                    IF d.logs[i].is_lily THEN 1 ELSE d.logs[i].len,
                    d.logs[i].is_lily)]]
    ELSE
        [lane EXCEPT !.train_timer = d.timer]

Lane(y, lane_type, d) == GenerateContent(EmptyLane(y, lane_type), d)

\* Lane.has_obstacle_at
HasObstacleAt(lane, x) == x \in Range(lane.obstacles)

\* CollectCoin that reports the coin and leaves it in the lane
CollectCoinKeepCoin(lane, x) ==
    IF x \in Range(lane.coins)
    THEN [lane |-> lane, result |-> TRUE]
    ELSE [lane |-> lane, result |-> FALSE]

\* Lane.collect_coin: the lane afterwards and the value returned
CollectCoin(lane, x) ==
    IF x \in Range(lane.coins)
    THEN [lane |-> [lane EXCEPT !.coins = Without(lane.coins, {x})],
          result |-> TRUE]
    ELSE [lane |-> lane, result |-> FALSE]

\* TrainUpdate with the warning raised at the threshold itself (<=, not <)
TrainUpdateWarnAtThreshold(lane, d, dir, interval) ==
    IF lane.train = <<>> THEN
        LET timer == lane.train_timer - d
            warn == IF timer <= WarningTime THEN TRUE ELSE lane.warning_active
        IN IF timer <= 0
           THEN LET speed == TrainSpeed * SpeedDen * dir
                    start_x == IF speed > 0 THEN -TILE * 7
                               ELSE WorldWidth * TILE + TILE
                IN [lane EXCEPT !.train_timer = timer,
                                !.train = <<Vehicle(start_x, lane.y, speed, "train")>>,
                                !.warning_active = FALSE]
           ELSE [lane EXCEPT !.train_timer = timer, !.warning_active = warn]
    ELSE lane

\* TrainUpdate leaving the warning as it is when the train is spawned
TrainUpdateKeepWarning(lane, d, dir, interval) ==
    IF lane.train = <<>> THEN
        LET timer == lane.train_timer - d
            warn == IF timer < WarningTime THEN TRUE ELSE lane.warning_active
        IN IF timer <= 0
           THEN LET speed == TrainSpeed * SpeedDen * dir
                    start_x == IF speed > 0 THEN -TILE * 7
                               ELSE WorldWidth * TILE + TILE
                IN [lane EXCEPT !.train_timer = timer,
                                !.train = <<Vehicle(start_x, lane.y, speed, "train")>>,
                                !.warning_active = warn]
           ELSE [lane EXCEPT !.train_timer = timer, !.warning_active = warn]
    ELSE
        LET t == VehicleUpdate(lane.train[1], d)
        IN IF t.speed > 0 /\ t.x > WorldWidth * TILE + TILE * 7
           THEN [lane EXCEPT !.train = <<>>, !.train_timer = interval]
           ELSE IF t.speed < 0 /\ t.x < -TILE * 7
           THEN [lane EXCEPT !.train = <<>>, !.train_timer = interval]
           ELSE [lane EXCEPT !.train = <<t>>]

\* The train branch of Lane.update; dir and interval are the draws of
\* random.choice([-1, 1]) and random.uniform(3, 8) (ms).
TrainUpdate(lane, d, dir, interval) ==
    IF lane.train = <<>> THEN
        LET timer == lane.train_timer - d
            warn == IF timer < WarningTime THEN TRUE ELSE lane.warning_active
        IN IF timer <= 0
           THEN LET speed == TrainSpeed * SpeedDen * dir
                    start_x == IF speed > 0 THEN -TILE * 7
                               ELSE WorldWidth * TILE + TILE
                IN [lane EXCEPT !.train_timer = timer,
                                !.train = <<Vehicle(start_x, lane.y, speed, "train")>>,
                                !.warning_active = FALSE]
           ELSE [lane EXCEPT !.train_timer = timer, !.warning_active = warn]
    ELSE
        LET t == VehicleUpdate(lane.train[1], d)
        IN IF t.speed > 0 /\ t.x > WorldWidth * TILE + TILE * 7
           THEN [lane EXCEPT !.train = <<>>, !.train_timer = interval]
           ELSE IF t.speed < 0 /\ t.x < -TILE * 7
           THEN [lane EXCEPT !.train = <<>>, !.train_timer = interval]
           ELSE [lane EXCEPT !.train = <<t>>]

\* Lane.update
LaneUpdate(lane, d, dir, interval) ==
    LET moved == [lane EXCEPT
                    !.vehicles = [i \in 1..Len(lane.vehicles) |->
                                     VehicleUpdate(lane.vehicles[i], d)],
                    !.logs = [i \in 1..Len(lane.logs) |->
                                 LogUpdate(lane.logs[i], d)]]
    IN IF lane.type = LANE_TRAIN THEN TrainUpdate(moved, d, dir, interval)
       ELSE moved

\* any(vehicle.collides_with(...) for vehicle in vehicles)
AnyVehicleHits(lane, px, py) ==
    \E i \in 1..Len(lane.vehicles) : CollidesWith(lane.vehicles[i], px, py)

\* Index of the first log of the lane the player is on, 0 if none
FirstLogUnder(lane, px, py) ==
    LET on == {i \in 1..Len(lane.logs) : PlayerOnLog(lane.logs[i], px, py)}
    IN IF on = {} THEN 0 ELSE CHOOSE i \in on : \A j \in on : i <= j

\* LaneCheckCollision without the test of the player's pixel row
LaneCheckCollisionAnyRow(lane, p) ==
    IF ~p.alive THEN [result |-> "none", on_log |-> p.on_log]
    ELSE IF AnyVehicleHits(lane, p.pixel_x, p.pixel_y)
    THEN [result |-> "squash", on_log |-> p.on_log]
    ELSE IF /\ lane.type = LANE_TRAIN
            /\ lane.train # <<>>
            /\ CollidesWith(lane.train[1], p.pixel_x, p.pixel_y)
    THEN [result |-> "squash", on_log |-> p.on_log]
    ELSE IF lane.type = LANE_WATER
    THEN LET i == FirstLogUnder(lane, p.pixel_x, p.pixel_y)
         IN IF i = 0 THEN [result |-> "splash", on_log |-> <<>>]
            ELSE [result |-> "none", on_log |-> <<lane.y, i>>]
    ELSE [result |-> "none", on_log |-> <<>>]

\* LaneCheckCollision leaving player.on_log alone on a lane without water
LaneCheckCollisionKeepLog(lane, p) ==
    IF ~p.alive THEN [result |-> "none", on_log |-> p.on_log]
    ELSE IF Trunc(p.pixel_y, TILE) # lane.y
    THEN [result |-> "none", on_log |-> p.on_log]
    ELSE IF AnyVehicleHits(lane, p.pixel_x, p.pixel_y)
    THEN [result |-> "squash", on_log |-> p.on_log]
    ELSE IF /\ lane.type = LANE_TRAIN
            /\ lane.train # <<>>
            /\ CollidesWith(lane.train[1], p.pixel_x, p.pixel_y)
    THEN [result |-> "squash", on_log |-> p.on_log]
    ELSE IF lane.type = LANE_WATER
    THEN LET i == FirstLogUnder(lane, p.pixel_x, p.pixel_y)
         IN IF i = 0 THEN [result |-> "splash", on_log |-> <<>>]
            ELSE [result |-> "none", on_log |-> <<lane.y, i>>]
    ELSE [result |-> "none", on_log |-> p.on_log]

\* Lane.check_collision: the value returned and player.on_log afterwards.
\* A log is referred to by <<row, index in lane.logs>>; <<>> is None.
LaneCheckCollision(lane, p) ==
    IF ~p.alive THEN [result |-> "none", on_log |-> p.on_log]
    ELSE IF Trunc(p.pixel_y, TILE) # lane.y
    THEN [result |-> "none", on_log |-> p.on_log]
    ELSE IF AnyVehicleHits(lane, p.pixel_x, p.pixel_y)
    THEN [result |-> "squash", on_log |-> p.on_log]
    ELSE IF /\ lane.type = LANE_TRAIN
            /\ lane.train # <<>>
            /\ CollidesWith(lane.train[1], p.pixel_x, p.pixel_y)
    THEN [result |-> "squash", on_log |-> p.on_log]
    ELSE IF lane.type = LANE_WATER
    THEN LET i == FirstLogUnder(lane, p.pixel_x, p.pixel_y)
         IN IF i = 0 THEN [result |-> "splash", on_log |-> <<>>]
            ELSE [result |-> "none", on_log |-> <<lane.y, i>>]
    ELSE [result |-> "none", on_log |-> <<>>]

----------------------------------------------------------------------------
\* World

\* CreateLane with row 0 rolled like the rows ahead (y > 0 for y >= 0)
CreateLaneRollRowZero(y, d) ==
    IF y > 0 THEN Lane(y, LANE_GRASS, d)
    ELSE IF d.roll < 30 THEN Lane(y, LANE_GRASS, d)
    ELSE IF d.roll < 60 THEN Lane(y, LANE_ROAD, d)
    ELSE IF d.roll < 85 THEN Lane(y, LANE_WATER, d)
    ELSE Lane(y, LANE_TRAIN, d)

\* World._create_lane
CreateLane(y, d) ==
    IF y >= 0 THEN Lane(y, LANE_GRASS, d)
    ELSE IF d.roll < 30 THEN Lane(y, LANE_GRASS, d)
    ELSE IF d.roll < 60 THEN Lane(y, LANE_ROAD, d)
    ELSE IF d.roll < 85 THEN Lane(y, LANE_WATER, d)
    ELSE Lane(y, LANE_TRAIN, d)

\* GenerateLanes that creates rows only while the lane map is still empty
\* ("if not self.lanes" for "if y not in self.lanes")
GenerateLanesOnce(ls, r, start_y, end_y) ==
    IF DOMAIN ls = {}
    THEN [y \in start_y .. (end_y - 1) |-> CreateLane(y, DrawAt(r, y))]
    ELSE ls

\* World._generate_lanes(start_y, end_y): rows start_y .. end_y - 1
GenerateLanes(ls, r, start_y, end_y) ==
    [y \in DOMAIN ls \cup (start_y .. (end_y - 1)) |->
        IF y \in DOMAIN ls THEN ls[y] ELSE CreateLane(y, DrawAt(r, y))]

\* World.__init__
NewWorld(r) == GenerateLanes(<<>>, r, -5, 20)

\* World.get_lane: the lane map afterwards (the lane returned is lanes[y])
GetLane(ls, r, y) ==
    IF y \notin DOMAIN ls THEN GenerateLanes(ls, r, y - 10, y + 10) ELSE ls

\* WorldUpdate with the window of updated rows one row longer at its low end
WorldUpdateLowEdge(ls, r, d, player_y, dir, interval) ==
    LET current_grid_y == Trunc(player_y, TILE)
        gen == GenerateLanes(ls, r, current_grid_y - 30, current_grid_y + 10)
    IN [y \in DOMAIN gen |->
          IF y \in (current_grid_y - 16) .. (current_grid_y + 14)
          THEN LaneUpdate(gen[y], d, dir, interval)
          ELSE gen[y]]

\* World.update
WorldUpdate(ls, r, d, player_y, dir, interval) ==
    LET current_grid_y == Trunc(player_y, TILE)
        gen == GenerateLanes(ls, r, current_grid_y - 30, current_grid_y + 10)
    IN [y \in DOMAIN gen |->
          IF y \in (current_grid_y - 15) .. (current_grid_y + 14)
          THEN LaneUpdate(gen[y], d, dir, interval)
          ELSE gen[y]]

\* World.check_collisions: rows current-1 .. current+1 in ascending order,
\* the first result that is not None; player.on_log as the lanes leave it.
RECURSIVE CheckRows(_, _, _, _)
CheckRows(ls, p, y, last) ==
    IF y > last THEN [result |-> "none", on_log |-> p.on_log]
    ELSE IF y \notin DOMAIN ls THEN CheckRows(ls, p, y + 1, last)
    ELSE LET c == LaneCheckCollision(ls[y], p)
         IN IF c.result # "none" THEN c
            ELSE CheckRows(ls, [p EXCEPT !.on_log = c.on_log], y + 1, last)

WorldCheckCollisions(ls, p) ==
    LET current_grid_y == Trunc(p.pixel_y, TILE)
    IN CheckRows(ls, p, current_grid_y - 1, current_grid_y + 1)

\* World.check_coin_collection: the lane map afterwards and the value returned
CheckCoinCollection(ls, p) ==
    LET grid_y == Trunc(p.pixel_y, TILE)
        grid_x == Trunc(p.pixel_x, TILE)
    IN IF grid_y \in DOMAIN ls
       THEN LET c == CollectCoin(ls[grid_y], grid_x)
            IN [lanes |-> [ls EXCEPT ![grid_y] = c.lane], result |-> c.result]
       ELSE [lanes |-> ls, result |-> FALSE]

----------------------------------------------------------------------------
\* Player

\* Player.__init__
NewPlayer(x, y) ==
    [grid_x |-> x, grid_y |-> y, pixel_x |-> x * TILE, pixel_y |-> y * TILE,
     target_x |-> x * TILE, target_y |-> y * TILE, moving |-> FALSE,
     alive |-> TRUE, on_log |-> <<>>, death_type |-> "none", idle_time |-> 0]

\* Player.move with the right-hand bound off by one (column = width accepted)
PlayerMoveWideBound(p, ls, r, dx, dy) ==
    LET new_grid_x == p.grid_x + dx
        new_grid_y == p.grid_y + dy
    IN IF p.moving \/ ~p.alive
       THEN [player |-> p, lanes |-> ls, result |-> FALSE]
       ELSE IF new_grid_x < 0 \/ new_grid_x > WorldWidth
       THEN [player |-> p, lanes |-> ls, result |-> FALSE]
       ELSE LET ls1 == GetLane(ls, r, new_grid_y)
            IN IF /\ new_grid_y \in DOMAIN ls1
                  /\ HasObstacleAt(ls1[new_grid_y], new_grid_x)
               THEN [player |-> p, lanes |-> ls1, result |-> FALSE]
               ELSE [player |-> [p EXCEPT !.grid_x = new_grid_x,
                                          !.grid_y = new_grid_y,
                                          !.target_x = new_grid_x * TILE,
                                          !.target_y = new_grid_y * TILE,
                                          !.moving = TRUE,
                                          !.idle_time = 0],
                     lanes |-> ls1, result |-> TRUE]

\* Player.move: the player and the lane map afterwards, and the value returned
PlayerMove(p, ls, r, dx, dy) ==
    LET new_grid_x == p.grid_x + dx
        new_grid_y == p.grid_y + dy
    IN IF p.moving \/ ~p.alive
       THEN [player |-> p, lanes |-> ls, result |-> FALSE]
       ELSE IF new_grid_x < 0 \/ new_grid_x >= WorldWidth
       THEN [player |-> p, lanes |-> ls, result |-> FALSE]
       ELSE LET ls1 == GetLane(ls, r, new_grid_y)
            IN IF /\ new_grid_y \in DOMAIN ls1
                  /\ HasObstacleAt(ls1[new_grid_y], new_grid_x)
               THEN [player |-> p, lanes |-> ls1, result |-> FALSE]
               ELSE [player |-> [p EXCEPT !.grid_x = new_grid_x,
                                          !.grid_y = new_grid_y,
                                          !.target_x = new_grid_x * TILE,
                                          !.target_y = new_grid_y * TILE,
                                          !.moving = TRUE,
                                          !.idle_time = 0],
                     lanes |-> ls1, result |-> TRUE]

\* PlayerHop snapping only within one pixel of the target: a step of 12 jumps
\* over it
PlayerHopNarrowSnap(p) ==
    LET dx == p.target_x - p.pixel_x
        dy == p.target_y - p.pixel_y
        dist == ISqrt(dx * dx + dy * dy)
    IN IF dx * dx + dy * dy < PX * PX
       THEN [p EXCEPT !.pixel_x = p.target_x, !.pixel_y = p.target_y,
                      !.moving = FALSE]
       ELSE [p EXCEPT !.pixel_x = @ + Trunc(dx * MoveSpeed * PX, dist),
                      !.pixel_y = @ + Trunc(dy * MoveSpeed * PX, dist)]

\* The hop of Player.update (the branch "if self.moving")
PlayerHop(p) ==
    LET dx == p.target_x - p.pixel_x
        dy == p.target_y - p.pixel_y
        dist == ISqrt(dx * dx + dy * dy)
    IN IF dx * dx + dy * dy < (MoveSpeed * PX) * (MoveSpeed * PX)
       THEN [p EXCEPT !.pixel_x = p.target_x, !.pixel_y = p.target_y,
                      !.moving = FALSE]
       ELSE [p EXCEPT !.pixel_x = @ + Trunc(dx * MoveSpeed * PX, dist),
                      !.pixel_y = @ + Trunc(dy * MoveSpeed * PX, dist)]

\* The log the player's on_log refers to
LogOf(ls, ref) == ls[ref[1]].logs[ref[2]]

\* The drift of Player.update (the branch "if self.on_log")
PlayerDrift(p, ls, d) ==
    IF p.on_log # <<>>
    THEN LET x1 == p.pixel_x + Disp(LogOf(ls, p.on_log).speed, d)
         IN [p EXCEPT !.pixel_x = x1, !.grid_x = Trunc(x1, TILE), !.target_x = x1]
    ELSE p

\* Player.update
PlayerUpdate(p, ls, d) ==
    IF ~p.alive THEN p
    ELSE LET p1 == [p EXCEPT !.idle_time = @ + d]
             p2 == IF p1.moving THEN PlayerHop(p1) ELSE p1
         IN PlayerDrift(p2, ls, d)

\* Player.die
PlayerDie(p, death_type) == [p EXCEPT !.alive = FALSE, !.death_type = death_type]

----------------------------------------------------------------------------
\* Eagle

\* Eagle.__init__
NewEagle ==
    [active |-> FALSE, x |-> 0, y |-> -100 * PX, target_x |-> 0, target_y |-> 0,
     phase |-> 0]

\* Eagle.activate
EagleActivate(e, player_x, player_y) ==
    [e EXCEPT !.active = TRUE,
              !.x = player_x - EagleOffX * PX,
              !.y = player_y - EagleOffY * PX,
              !.target_x = player_x,
              !.target_y = player_y,
              !.phase = 0]

\* Eagle.update: the eagle afterwards and the value returned
EagleUpdate(e) ==
    IF ~e.active THEN [eagle |-> e, caught |-> FALSE]
    ELSE IF e.phase = 0 THEN
        LET dx == e.target_x - e.x
            dy == e.target_y - e.y
            dist == ISqrt(dx * dx + dy * dy)
        IN IF dx * dx + dy * dy < (EagleCatchDist * PX) * (EagleCatchDist * PX)
           THEN [eagle |-> [e EXCEPT !.phase = 1], caught |-> TRUE]
           ELSE [eagle |-> [e EXCEPT !.x = @ + Trunc(dx * EagleSpeed * PX, dist),
                                     !.y = @ + Trunc(dy * EagleSpeed * PX, dist)],
                 caught |-> FALSE]
    ELSE IF e.phase = 2 THEN
        LET y1 == e.y - EagleRise * PX
        IN [eagle |-> [e EXCEPT !.y = y1,
                                !.active = IF y1 < -EagleExitY * PX THEN FALSE ELSE @],
            caught |-> FALSE]
    ELSE [eagle |-> e, caught |-> FALSE]

----------------------------------------------------------------------------
\* Game

\* The session state Game.reset_game creates
NewSession(r) ==
    [world |-> NewWorld(r), player |-> NewPlayer(StartX, StartY),
     eagle |-> NewEagle, score |-> 0, max_y_reached |-> 0,
     coins_collected |-> 0, game_over |-> FALSE]

\* ResolveCollision that lets the player die and the game go on
ResolveCollisionGameGoesOn(g) ==
    IF g.player.alive
    THEN LET c == WorldCheckCollisions(g.world, g.player)
             p == [g.player EXCEPT !.on_log = c.on_log]
         IN IF c.result # "none"
            THEN [g EXCEPT !.player = PlayerDie(p, c.result)]
            ELSE [g EXCEPT !.player = p]
    ELSE g

\* Game.update, lines "if self.player.alive: collision = ..."
ResolveCollision(g) ==
    IF g.player.alive
    THEN LET c == WorldCheckCollisions(g.world, g.player)
             p == [g.player EXCEPT !.on_log = c.on_log]
         IN IF c.result # "none"
            THEN [g EXCEPT !.player = PlayerDie(p, c.result), !.game_over = TRUE]
            ELSE [g EXCEPT !.player = p]
    ELSE g

\* Game.update, lines "if self.world.check_coin_collection(self.player)"
CollectStep(g) ==
    LET c == CheckCoinCollection(g.world, g.player)
    IN IF c.result
       THEN [g EXCEPT !.world = c.lanes, !.coins_collected = @ + 1]
       ELSE g

\* Game.update, lines "if self.player.alive and self.player.on_log"
CarriedOffStep(g) ==
    IF /\ g.player.alive
       /\ g.player.on_log # <<>>
       /\ \/ g.player.pixel_x < -TILE
          \/ g.player.pixel_x > WorldWidth * TILE
    THEN [g EXCEPT !.player = PlayerDie(g.player, "splash"), !.game_over = TRUE]
    ELSE g

\* Game.update, lines "if self.player.alive and self.player.idle_time > 5"
ActivateStep(g) ==
    IF g.player.alive /\ g.player.idle_time > IdleLimit * 1000
    THEN [g EXCEPT !.eagle = EagleActivate(g.eagle, g.player.pixel_x,
                                           g.player.pixel_y)]
    ELSE g

\* Game.update, lines "if self.eagle.active"
EagleStep(g) ==
    IF g.eagle.active
    THEN LET u == EagleUpdate(g.eagle)
         IN IF u.caught
            THEN [g EXCEPT !.player = PlayerDie(g.player, "eagle"),
                           !.eagle = [u.eagle EXCEPT !.phase = 2],
                           !.game_over = TRUE]
            ELSE [g EXCEPT !.eagle = u.eagle]
    ELSE g

\* ScoreStep following the current depth, down as well as up
ScoreStepCurrentDepth(g) ==
    LET current_y == -g.player.grid_y
    IN IF current_y # g.max_y_reached /\ current_y >= 0
       THEN [g EXCEPT !.score = @ + (current_y - g.max_y_reached),
                      !.max_y_reached = current_y]
       ELSE g

\* ScoreStep with the depth counted from the start row
ScoreStepFromStart(g) ==
    LET current_y == StartY - g.player.grid_y
    IN IF current_y > g.max_y_reached
       THEN [g EXCEPT !.score = @ + (current_y - g.max_y_reached),
                      !.max_y_reached = current_y]
       ELSE g

\* Game.update, lines "current_y = -self.player.grid_y"
ScoreStep(g) ==
    LET current_y == -g.player.grid_y
    IN IF current_y > g.max_y_reached
       THEN [g EXCEPT !.score = @ + (current_y - g.max_y_reached),
                      !.max_y_reached = current_y]
       ELSE g

\* Game.update
GameUpdate(g, r, d, dir, interval) ==
    IF g.game_over
    THEN [g EXCEPT !.eagle = EagleUpdate(g.eagle).eagle]
    ELSE LET p1 == PlayerUpdate(g.player, g.world, d)
             w1 == WorldUpdate(g.world, r, d, p1.pixel_y, dir, interval)
             g1 == [g EXCEPT !.player = p1, !.world = w1]
         IN ScoreStep(EagleStep(ActivateStep(CarriedOffStep(CollectStep(
                ResolveCollision(g1))))))

\* The session state held in the variables
Session ==
    [world |-> lanes, player |-> player, eagle |-> eagle, score |-> score,
     max_y_reached |-> max_y_reached, coins_collected |-> coins_collected,
     game_over |-> game_over]

SetSession(g) ==
    /\ lanes' = g.world
    /\ player' = g.player
    /\ eagle' = g.eagle
    /\ score' = g.score
    /\ max_y_reached' = g.max_y_reached
    /\ coins_collected' = g.coins_collected
    /\ game_over' = g.game_over

----------------------------------------------------------------------------
\* Bounds of the model

\* the player is kept within rows -MaxDepth .. MaxBack
MaxDepth == 2
MaxBack == 3

----------------------------------------------------------------------------
\* Actions

\* Game.__init__, with the layout drawn from a set of layouts
InitWith(layouts) ==
    /\ rng \in layouts
    /\ lanes = NewSession(rng).world
    /\ player = NewSession(rng).player
    /\ eagle = NewSession(rng).eagle
    /\ score = 0
    /\ max_y_reached = 0
    /\ coins_collected = 0
    /\ game_over = FALSE
    /\ high_score = 0
    /\ dt = 0
    /\ frames = 0
    /\ pc = "frame"

\* KeyDirWithin with any key restarting a finished game (no test for SPACE)
KeyDirAnyKeyRestarts(dx, dy, lo, hi) ==
    /\ player.grid_y + dy \in lo .. hi
    /\ pc' = "events"
    /\ IF game_over
       THEN /\ high_score' = Max(high_score, score)
            /\ SetSession(NewSession(rng))
       ELSE /\ LET m == PlayerMove(player, lanes, rng, dx, dy)
               IN player' = m.player /\ lanes' = m.lanes
            /\ UNCHANGED <<eagle, score, max_y_reached, coins_collected,
                           game_over, high_score>>
    /\ UNCHANGED <<rng, dt, frames>>

\* Game.handle_input, a KEYDOWN of a direction key, while the row asked for is
\* one of lo .. hi
KeyDirWithin(dx, dy, lo, hi) ==
    /\ player.grid_y + dy \in lo .. hi
    /\ pc' = "events"
    /\ IF game_over
       THEN UNCHANGED <<player, lanes>>
       ELSE LET m == PlayerMove(player, lanes, rng, dx, dy)
            IN player' = m.player /\ lanes' = m.lanes
    /\ UNCHANGED <<eagle, score, max_y_reached, coins_collected, game_over,
                   high_score, rng, dt, frames>>

KeyDir(dx, dy) == KeyDirWithin(dx, dy, -MaxDepth, MaxBack)

KeyUp == KeyDir(0, -1)

KeyDown == KeyDir(0, 1)

KeyLeft == KeyDir(-1, 0)

KeyRight == KeyDir(1, 0)

\* KeySpace storing the last score as the high score (no max)
KeySpaceLastScore(layouts) ==
    /\ pc' = "events"
    /\ IF game_over
       THEN /\ high_score' = score
            /\ rng' \in layouts
            /\ SetSession(NewSession(rng'))
            /\ frames' = 0
       ELSE UNCHANGED <<player, eagle, lanes, score, max_y_reached,
                        coins_collected, game_over, high_score, rng, frames>>
    /\ UNCHANGED dt

\* Game.handle_input, a KEYDOWN of SPACE; the new world is drawn from layouts
KeySpace(layouts) ==
    /\ pc' = "events"
    /\ IF game_over
       THEN /\ high_score' = Max(high_score, score)
            /\ rng' \in layouts
            /\ SetSession(NewSession(rng'))
            /\ frames' = 0
       ELSE UNCHANGED <<player, eagle, lanes, score, max_y_reached,
                        coins_collected, game_over, high_score, rng, frames>>
    /\ UNCHANGED dt

\* One frame of Game.run: dt = clock.tick(FPS), then Game.update(dt).
\* dir and interval are what random.choice([-1, 1]) and random.uniform(3, 8)
\* return to a train lane that spawns or removes its train in this frame.
Tick(d, dir, interval) ==
    /\ dt' = d
    /\ pc' = "frame"
    /\ SetSession(GameUpdate(Session, rng, d, dir, interval))
    /\ UNCHANGED <<high_score, rng>>

\* Frames, at most maxFrames of them in a session
FrameN(dts, dirs, intervals, maxFrames) ==
    /\ frames < maxFrames
    /\ frames' = frames + 1
    /\ \E d \in dts, dir \in dirs, interval \in intervals : Tick(d, dir, interval)

\* Frames, while the player has been idle for less than maxIdle ms
FrameIdle(dts, dirs, intervals, maxIdle) ==
    /\ player.alive => player.idle_time < maxIdle
    /\ UNCHANGED frames
    /\ \E d \in dts, dir \in dirs, interval \in intervals : Tick(d, dir, interval)

\* Lane.update(dt) of the lane of row y alone
LaneStep(y, dts, dirs, intervals) ==
    /\ y \in DOMAIN lanes
    /\ \E d \in dts, dir \in dirs, interval \in intervals :
          /\ dt' = d
          /\ lanes' = [lanes EXCEPT ![y] = LaneUpdate(@, d, dir, interval)]
    /\ UNCHANGED <<player, eagle, score, max_y_reached, coins_collected,
                   game_over, high_score, rng, frames, pc>>

\* The draws a train lane may take when it spawns or removes a train
TrainDirs == {-1, 1}

TrainIntervals == {3000, 8000}

----------------------------------------------------------------------------
\* Layouts: the draws of the rows a scenario is about (all other rows are
\* drawn as empty grass)

\* row 1 has a tree left of the start column, row 0 a coin on column 8
\* (coin_pick 8 of the 16 free columns)
GrassRows ==
    (1 :> GrassDraw(<<7>>, 99, 0)) @@ (0 :> GrassDraw(<<>>, 5, 8))

\* row -1 is a train track whose timer is seeded at 2.0 s, or at 2.4 s
LayoutTrain2000 == GrassRows @@ (-1 :> TrainDraw(2000))

LayoutTrain2400 == GrassRows @@ (-1 :> TrainDraw(2400))

TrainLayouts == {LayoutTrain2000, LayoutTrain2400}

----------------------------------------------------------------------------
\* SpecTrain: the train lane of row -1, updated again and again

\* the first row ahead of the safe zone: rows >= 0 are always grass
FirstWildRow == -1

TrainDts == {16, 20}

InitTrain == InitWith(TrainLayouts)

NextTrain == LaneStep(FirstWildRow, TrainDts, TrainDirs, TrainIntervals)

SpecTrain == InitTrain /\ [][NextTrain]_vars /\ WF_vars(NextTrain)

\* The train lane and the time its first countdown has run
TrainLane == lanes[FirstWildRow]

TrainPresent == TrainLane.train # <<>>

Countdown == rng[FirstWildRow].timer - TrainLane.train_timer

\* C4 (as claimed): on a train lane that keeps being updated, every present
\* train eventually leaves the world and is removed (lane.train is None again).
C4_TrainEventuallyRemoved == TrainPresent ~> ~TrainPresent

\* The lane of the train scenario: timer seeded at 2.0 s
Seeded2000 == rng[FirstWildRow].timer = 2000

\* C5 (as claimed): with the timer seeded at 2.0 s the warning is active from
\* 0.5 s of countdown on (and not before) until the train comes, and a train
\* exists from 2.0 s of countdown on and in no earlier state.
C5_WarningAtHalfSecond ==
    Seeded2000 =>
        /\ ~TrainPresent => (TrainLane.warning_active <=> Countdown >= 500)
        /\ TrainPresent <=> Countdown >= 2000

\* C5 (amended): the warning is active exactly in the states without a train
\* in which MORE than 0.5 s of the countdown have run (train_timer < 1.5 s,
\* strictly: at 0.5 s sharp it is still off); a train exists exactly in the
\* states in which 2.0 s or more have run.
C5_WarningAfterHalfSecond ==
    Seeded2000 =>
        /\ ~TrainPresent => (TrainLane.warning_active <=> Countdown > 500)
        /\ TrainPresent <=> Countdown >= 2000

\* C5 witness: the warning is on right after 0.5 s of countdown
C5_WarningSeen ==
    /\ Seeded2000
    /\ TrainLane.warning_active
    /\ ~TrainPresent
    /\ Countdown > 500
    /\ Countdown <= 520

----------------------------------------------------------------------------
\* SpecTraffic: the road or river of row -1, updated again and again

\* two cars driving right at 2.0
LayoutRoadRight == GrassRows @@ (FirstWildRow :> RoadDraw(20, "car", <<6, 9>>))

\* a truck driving left at 4.5
LayoutRoadLeft == GrassRows @@ (FirstWildRow :> RoadDraw(-45, "truck", <<16>>))

\* two lily pads drifting left at 1.0
LayoutRiverLeft ==
    GrassRows @@ (FirstWildRow :>
        WaterDraw(-10, <<LogDraw(2, TRUE, 2), LogDraw(1, TRUE, 2)>>))

\* two logs of length 2 drifting right at 3.0
LayoutRiverRight ==
    GrassRows @@ (FirstWildRow :>
        WaterDraw(30, <<LogDraw(0, FALSE, 2), LogDraw(1, FALSE, 2)>>))

TrafficLayouts ==
    {LayoutRoadRight, LayoutRoadLeft, LayoutRiverLeft, LayoutRiverRight}

TrafficDts == {16}

InitTraffic == InitWith(TrafficLayouts)

NextTraffic == LaneStep(FirstWildRow, TrafficDts, TrainDirs, TrainIntervals)

SpecTraffic == InitTraffic /\ [][NextTraffic]_vars

\* The vehicles and logs of the lane of row -1
Entities(ls) == ls[FirstWildRow].vehicles \o ls[FirstWildRow].logs

\* How far x1 lies beyond the bound at which an entity is wrapped (0 if not)
Overshoot(e, x1) ==
    IF e.speed > 0 THEN Max(0, x1 - (WorldWidth * TILE + TILE * e.length))
    ELSE IF e.speed < 0 THEN Min(0, x1 + TILE * e.length)
    ELSE 0

\* C6 (as claimed): every update keeps x congruent to the un-wrapped
\* trajectory modulo (world width + entity length) tiles: the new x is
\* congruent to the old x + speed*dt*60.
C6_CongruentModWidthPlusLength ==
    [][\A i \in 1..Len(Entities(lanes)) :
          LET e == Entities(lanes)[i]
              x1 == e.x + Disp(e.speed, dt')
          IN (Entities(lanes')[i].x - x1) % ((WorldWidth + e.length) * TILE) = 0
      ]_vars

\* C6 (amended): an update that does not wrap advances x by exactly
\* speed*dt*60; an update that wraps puts x on the re-entry edge, dropping the
\* overshoot: the new x is congruent to the old x + speed*dt*60 minus the
\* overshoot beyond the far bound, modulo (world width + 2 * length) tiles,
\* and it is the un-wrapped position itself when there is no overshoot.
C6_CongruentUpToOvershoot ==
    [][\A i \in 1..Len(Entities(lanes)) :
          LET e == Entities(lanes)[i]
              x1 == e.x + Disp(e.speed, dt')
              o == Overshoot(e, x1)
              x2 == Entities(lanes')[i].x
          IN /\ (x2 - (x1 - o)) % ((WorldWidth + 2 * e.length) * TILE) = 0
             /\ o = 0 => x2 = x1
             /\ o > 0 => x2 = -TILE * e.length
             /\ o < 0 => x2 = WorldWidth * TILE + TILE * e.length
      ]_vars

\* C6 witness: a car driving right has wrapped (no car starts left of 0)
C6_Wrapped ==
    \E i \in 1..Len(Entities(lanes)) :
        /\ Entities(lanes)[i].speed > 0
        /\ Entities(lanes)[i].x < 0

------------------------------------------------------------\* C11: in every reachable state all vehicles of a road lane and all logs of
\* a water lane move at the one signed speed drawn when the lane was created:
\* no update and no wraparound changes an entity's speed.
C11_LaneSpeedKept ==
    \A y \in DOMAIN lanes :
        /\ \A i \in 1..Len(lanes[y].vehicles) :
              lanes[y].vehicles[i].speed = DrawAt(rng, y).speed
        /\ \A i \in 1..Len(lanes[y].logs) :
              lanes[y].logs[i].speed = DrawAt(rng, y).speed

\* C11 witness: a lane of two entities has been updated and one of them sits
\* on the edge it re-enters from after a wrap
C11_WrappedInLaneOfTwo ==
    /\ dt > 0
    /\ Len(Entities(lanes)) = 2
    /\ \E i \in 1..2 :
          LET e == Entities(lanes)[i]
          IN \/ e.speed > 0 /\ e.x = -TILE * e.length
             \/ e.speed < 0 /\ e.x = WorldWidth * TILE + TILE * e.length

----------------
\* SpecLag: grass ahead, the player walks forward or idles, frames of 50 ms
\* (a slow display: clock.tick returns whatever time the frame took)

\* row -1 is grass with trees off the player's column
LayoutGrass == GrassRows @@ (FirstWildRow :> GrassDraw(<<9, 3>>, 99, 0))

LagLayouts == {LayoutGrass}

LagDts == {50}

\* frames go on while the player has been idle for less than this (ms)
MaxLagIdle == 9000

InitLag == InitWith(LagLayouts)

NextLag ==
    \/ KeyUp
    \/ FrameIdle(LagDts, {1}, {3000}, MaxLagIdle)

SpecLag == InitLag /\ [][NextLag]_vars

\* The rows the three forward moves of scenario A lead onto are grass
ScenarioARowsGrass ==
    \A y \in (StartY - 3) .. (StartY - 1) : lanes[y].type = LANE_GRASS

\* The player has made three accepted forward moves since the reset (KeyUp is
\* the only key of SpecLag) and the tick after the last one has run
ThreeForwardMovesDone ==
    /\ pc = "frame"
    /\ player.grid_y = StartY - 3
    /\ ScenarioARowsGrass

\* C1 (as claimed): from a fresh reset (column 8, row 2, score 0) three
\* accepted forward moves onto grass rows cause no death and raise the score
\* by exactly 3.
C1_ThreeForwardMovesScoreThree ==
    ThreeForwardMovesDone => (player.alive /\ score = 3)

\* What the code yields instead: three accepted forward moves onto grass rows
\* cause no squash and no splash (the player is alive, or was caught by the
\* eagle after idling) and raise the score by exactly 1: the moves onto rows 1
\* and 0 score nothing, max_y_reached starting at 0 with the player on row 2.
ScenarioAScoresOne ==
    ThreeForwardMovesDone =>
        /\ score = 1
        /\ max_y_reached = 1
        /\ player.alive \/ player.death_type = "eagle"

\* Scenario A has run: the player stands alive on row -1 after the three moves
ScenarioAArrived ==
    /\ ThreeForwardMovesDone
    /\ player.alive
    /\ ~player.moving
    /\ player.pixel_y = (StartY - 3) * TILE
    /\ score = 1

\* What Game.update makes of an eagle that is not activated again
EagleContinues(e) ==
    LET u == EagleUpdate(e)
    IN IF u.caught THEN [u.eagle EXCEPT !.phase = 2] ELSE u.eagle

\* C2 (as claimed): on a tick on which the eagle is already active and the
\* player alive, Game.update does not call Eagle.activate again: the eagle
\* goes on from where it was, its position, target and phase are not reset.
C2_EagleActivatedOnce ==
    [][(pc' = "frame" /\ eagle.active /\ ~game_over)
          => eagle' = EagleContinues(eagle)]_vars

\* Ticks from Eagle.activate to the tick on which Eagle.update reports
\* caught: the eagle starts sqrt(200^2 + 300^2) from its target, flies 5 per
\* tick and reports caught on the first tick that finds it closer than 20.
EagleFlightTicks ==
    (ISqrt(EagleOffX * EagleOffX + EagleOffY * EagleOffY) - EagleCatchDist)
        \div EagleSpeed + 2

\* C3 (as claimed): a player who stays alive without a successful move is
\* caught once the idle timer has passed 5 s: no alive player has been idle
\* for longer than 5 s plus the tick of the activation plus the eagle's flight.
C3_IdlePlayerCaught ==
    player.alive =>
        player.idle_time <= IdleLimit * 1000 + (1 + EagleFlightTicks) * dt

----------------------------------------------------------------------------
\* SpecWalk: the player walks in all four directions over grass rows with
\* trees, frames of 16 ms

WalkLayouts == {LayoutGrass}

WalkDts == {16}

\* frames go on while the player has been idle for less than this (ms)
MaxWalkIdle == 100

InitWalk == InitWith(WalkLayouts)

NextWalk ==
    \/ KeyUp
    \/ KeyDown
    \/ KeyLeft
    \/ KeyRight
    \/ FrameIdle(WalkDts, {1}, {3000}, MaxWalkIdle)

SpecWalk == InitWalk /\ [][NextWalk]_vars

Directions == {<<0, -1>>, <<0, 1>>, <<-1, 0>>, <<1, 0>>}

\* The target cell of a move is off the grid or holds a tree of a grass lane
Blocked(dx, dy) ==
    \/ player.grid_x + dx < 0
    \/ player.grid_x + dx > WorldWidth - 1
    \/ /\ lanes[player.grid_y + dy].type = LANE_GRASS
       /\ player.grid_x + dx \in Range(lanes[player.grid_y + dy].obstacles)

\* C7: a move of an alive player at rest is rejected (grid position, pixel
\* target, moving flag and idle timer unchanged) when the target column is
\* outside [0, width-1] or the target cell holds a grass obstacle; otherwise
\* the grid position becomes (grid_x+dx, grid_y+dy) at once and moving is set,
\* while the pixel position is still the old one.
C7_MoveRejectedOrAccepted ==
    [][\A m \in Directions :
          (KeyDir(m[1], m[2]) /\ player.alive /\ ~player.moving) =>
             IF Blocked(m[1], m[2])
             THEN /\ player'.grid_x = player.grid_x
                  /\ player'.grid_y = player.grid_y
                  /\ player'.target_x = player.target_x
                  /\ player'.target_y = player.target_y
                  /\ player'.moving = FALSE
                  /\ player'.idle_time = player.idle_time
             ELSE /\ player'.grid_x = player.grid_x + m[1]
                  /\ player'.grid_y = player.grid_y + m[2]
                  /\ player'.moving = TRUE
                  /\ player'.pixel_x = player.pixel_x
                  /\ player'.pixel_y = player.pixel_y]_vars

\* C7 witness: a move to the left edge has just been accepted from column 1,
\* the pixel position still being that of column 1
C7_AcceptedAtLeftEdge ==
    /\ pc = "events"
    /\ player.moving
    /\ player.grid_x = 0
    /\ player.pixel_x = TILE

\* The cell World.check_coin_collection looks at
CoinCellRow == Trunc(player.pixel_y, TILE)

CoinCellCol == Trunc(player.pixel_x, TILE)

\* C16: a tick collects a coin only if one lies on the cell it looks at: that
\* coin is then removed and coins_collected grows by exactly 1; a tick that
\* looks at a cell with no coin (never one, or already collected) leaves all
\* coins and coins_collected as they were; coins_collected never decreases.
C16_CoinCollectedOnce ==
    [][/\ coins_collected' >= coins_collected
       /\ (pc' = "frame" /\ ~game_over) =>
             IF CoinCellCol' \in Range(lanes[CoinCellRow'].coins)
             THEN /\ coins_collected' = coins_collected + 1
                  /\ CoinCellCol' \notin Range(lanes'[CoinCellRow'].coins)
                  /\ \A y \in DOMAIN lanes :
                        y # CoinCellRow' => lanes'[y].coins = lanes[y].coins
             ELSE /\ coins_collected' = coins_collected
                  /\ \A y \in DOMAIN lanes : lanes'[y].coins = lanes[y].coins
       /\ (pc' = "events" \/ game_over) =>
             /\ coins_collected' = coins_collected
             /\ \A y \in DOMAIN lanes : lanes'[y].coins = lanes[y].coins]_vars

\* C16 witness: the coin of cell (8, 0) is collected and a further tick has
\* looked at that cell with the player standing on it
C16_StandingWhereCoinWas ==
    /\ pc = "frame"
    /\ coins_collected = 1
    /\ lanes[0].coins = <<>>
    /\ ~player.moving
    /\ player.pixel_x = 8 * TILE /\ player.pixel_y = 0
    /\ player.idle_time > (TILE_SIZE \div MoveSpeed + 1) * dt

----------------------------------------------------------------------------
\* SpecRiver: a river on row -1; the player walks forward onto it and is
\* carried, frames of 50 ms

\* four floats drifting left at 3.0: a log of length 2 at x = 100, lily pads
\* at x = 200 and x = 600, a log of length 3 at x = 400
LayoutRiverFastLeft ==
    GrassRows @@ (FirstWildRow :>
        WaterDraw(-30, <<LogDraw(2, FALSE, 2), LogDraw(0, TRUE, 2),
                         LogDraw(0, FALSE, 3), LogDraw(0, TRUE, 2)>>))

RiverLayouts == {LayoutRiverFastLeft, LayoutRiverRight}

RiverDts == {50}

\* frames go on while the player has been idle for less than this (ms)
MaxRiverIdle == 3000

InitRiver == InitWith(RiverLayouts)

NextRiver ==
    \/ KeyUp
    \/ FrameIdle(RiverDts, {1}, {3000}, MaxRiverIdle)

SpecRiver == InitRiver /\ [][NextRiver]_vars

\* The player stands (not hopping) on a float
AtRestOnLog == player.alive /\ ~player.moving /\ player.on_log # <<>>

\* pixel_x after the drift of one frame of d ms on the float the player is on
Carried(d) == player.pixel_x + Disp(LogOf(lanes, player.on_log).speed, d)

InPlayableRange(x) == -TILE <= x /\ x <= WorldWidth * TILE

\* C9 (as claimed): a player at rest on a log or lily pad is carried with it:
\* every tick moves pixel_x by exactly speed*dt*60 and sets the column to
\* trunc(pixel_x / TILE), and as long as pixel_x stays within
\* [-TILE, width*TILE] the player does not splash and stays on that log.
C9_CarriedWithoutSplash ==
    [][(pc' = "frame" /\ ~game_over /\ AtRestOnLog) =>
          /\ player'.pixel_x = Carried(dt')
          /\ player'.grid_x = Trunc(Carried(dt'), TILE)
          /\ InPlayableRange(Carried(dt')) =>
                /\ player'.death_type # "splash"
                /\ player'.on_log = player.on_log]_vars

\* The lane of the player's pixel row is water and the player's centre is
\* within the tolerance span of none of its logs
InWaterOffLogs ==
    LET lane == lanes[Trunc(player.pixel_y, TILE)]
    IN /\ lane.type = LANE_WATER
       /\ \A i \in 1..Len(lane.logs) :
             ~PlayerOnLog(lane.logs[i], player.pixel_x, player.pixel_y)

Splashed ==
    /\ ~player.alive
    /\ player.death_type = "splash"
    /\ player.on_log = <<>>
    /\ game_over

\* C8 (as claimed): a tick that evaluates collisions for an alive player who
\* is then on a water lane, with the centre within tolerance of no log, ends
\* with the player dead of cause 'splash', the log association cleared and
\* the game over.
C8_OffLogsSplashes ==
    [][(pc' = "frame" /\ ~game_over /\ player.alive /\ InWaterOffLogs') =>
          Splashed']_vars

----------------------------------------------------------------------------
\* SpecSwoop: the river of row -1 again, with frames of 150 ms and a player
\* who may idle for more than 5 s before walking on

SwoopLayouts == {LayoutRiverFastLeft}

SwoopDts == {150}

\* frames go on while the player has been idle for less than this (ms)
MaxSwoopIdle == 5100

InitSwoop == InitWith(SwoopLayouts)

NextSwoop ==
    \/ KeyUp
    \/ FrameIdle(SwoopDts, {1}, {3000}, MaxSwoopIdle)

SpecSwoop == InitSwoop /\ [][NextSwoop]_vars

----------------------------------------------------------------------------
\* SpecRoad: a road on row -1, frames of 150 ms, and a player who may idle
\* for more than 5 s before walking onto it

\* one car driving right at 3.0, from x = 250
LayoutRoadFast == GrassRows @@ (FirstWildRow :> RoadDraw(30, "car", <<5>>))

RoadLayouts == {LayoutRoadFast, LayoutRoadLeft}

RoadDts == {150}

\* frames go on while the player has been idle for less than this (ms)
MaxRoadIdle == 6000

InitRoad == InitWith(RoadLayouts)

NextRoad ==
    \/ KeyUp
    \/ FrameIdle(RoadDts, {1}, {3000}, MaxRoadIdle)

SpecRoad == InitRoad /\ [][NextRoad]_vars

\* The lane of the player's pixel row
PixelRowLane == lanes[Trunc(player.pixel_y, TILE)]

\* The player stands (not hopping) on a road lane with traffic
AtRestOnRoad ==
    /\ player.alive /\ ~player.moving
    /\ PixelRowLane.type = LANE_ROAD
    /\ \E i \in 1..Len(PixelRowLane.vehicles) : PixelRowLane.vehicles[i].speed # 0

\* The hitbox of some vehicle of that lane overlaps the player's hitbox
VehicleReachesPlayer ==
    \E i \in 1..Len(PixelRowLane.vehicles) :
        CollidesWith(PixelRowLane.vehicles[i], player.pixel_x, player.pixel_y)

\* Ticks of d ms in which vehicle v completes one circuit of the lane
CircuitTicks(v, d) ==
    ((WorldWidth + v.length) * TILE) \div Abs(Disp(v.speed, d)) + 1

\* Ticks a hop of one tile lasts
HopTicks == TILE_SIZE \div MoveSpeed + 1

\* The player has stood on the road for no longer than a hop onto it and one
\* circuit of its first vehicle take
StoodWithinCircuit ==
    AtRestOnRoad =>
        player.idle_time <= (HopTicks + CircuitTicks(PixelRowLane.vehicles[1], dt)) * dt

\* C10 (as claimed): a player standing alive on a road lane with a moving
\* vehicle is reached by the vehicle's hitbox after enough ticks (within one
\* circuit of the lane: the vehicle does not pass through), and the tick in
\* which the hitboxes overlap ends with the player dead of cause 'squash'.
C10_StationaryPlayerSquashed ==
    [][pc' = "frame" =>
          /\ StoodWithinCircuit'
          /\ (~game_over /\ AtRestOnRoad /\ VehicleReachesPlayer') =>
                (~player'.alive /\ player'.death_type = "squash" /\ game_over')
      ]_vars

----------------------------------------------------------------------------
\* SpecGrass: row -1 is a grass lane of any of a set of draws (trees, coin);
\* the player walks forward over it, frames of 16 ms

\* what random.sample(range(width), num_trees) may return, num_trees = 0..4
TreeDraws == {<<>>, <<0>>, <<7, 9>>, <<15, 0, 3>>, <<15, 0, 3, 8>>}

\* random.random() * 100 below and above the 10 % of a coin
CoinRolls == {5, 50}

GrassLayouts ==
    {GrassRows @@ (FirstWildRow :> GrassDraw(t, cr, cp)) :
        t \in TreeDraws, cr \in CoinRolls, cp \in 0..(WorldWidth - 1)}

GrassDts == {16}

\* frames go on while the player has been idle for less than this (ms)
MaxGrassIdle == 100

InitGrass == InitWith(GrassLayouts)

NextGrass ==
    \/ KeyUp
    \/ FrameIdle(GrassDts, {1}, {3000}, MaxGrassIdle)

SpecGrass == InitGrass /\ [][NextGrass]_vars

\* C12: on every generated grass lane the coin column, if there is a coin, is
\* none of the lane's obstacle columns, and the obstacle columns are distinct
\* integers of [0, width-1].
C12_CoinOffObstacles ==
    \A y \in DOMAIN lanes :
        lanes[y].type = LANE_GRASS =>
            /\ \A i \in 1..Len(lanes[y].coins) :
                  lanes[y].coins[i] \notin Range(lanes[y].obstacles)
            /\ \A i \in 1..Len(lanes[y].obstacles) :
                  lanes[y].obstacles[i] \in 0..(WorldWidth - 1)
            /\ \A i, j \in 1..Len(lanes[y].obstacles) :
                  lanes[y].obstacles[i] = lanes[y].obstacles[j] => i = j

\* C12 witness: a lane of four trees with a coin, the coin drawn past the
\* column of a tree (pick 3 of the free columns 1, 2, 4, 5: column 5)
C12_CoinBesideFourTrees ==
    /\ dt > 0
    /\ Len(lanes[FirstWildRow].obstacles) = 4
    /\ lanes[FirstWildRow].coins = <<5>>

----------------------------------------------------------------------------
\* SpecBack: the player walks backward and forward over the safe zone, far
\* enough back for World.update to generate rows behind those of
\* World.__init__; frames of 16 ms

\* The random stream would make rows 0 and 20 roads and row 5 a river, were a
\* type rolled for them
LayoutBack ==
    (0 :> RoadDraw(20, "car", <<6>>)) @@ (20 :> RoadDraw(-45, "truck", <<16>>))
        @@ (5 :> WaterDraw(30, <<LogDraw(0, FALSE, 2), LogDraw(1, FALSE, 2)>>))

BackLayouts == {LayoutBack}

BackDts == {16}

\* frames go on while the player has been idle for less than this (ms)
MaxBackIdle == 100

\* the last row the player walks back to
MaxFarBack == 21

KeyUpFar == KeyDirWithin(0, -1, -MaxDepth, MaxFarBack)

KeyDownFar == KeyDirWithin(0, 1, -MaxDepth, MaxFarBack)

InitBack == InitWith(BackLayouts)

NextBack ==
    \/ KeyUpFar
    \/ KeyDownFar
    \/ FrameIdle(BackDts, {1}, {3000}, MaxBackIdle)

SpecBack == InitBack /\ [][NextBack]_vars

\* C13: every lane of a row >= 0 that exists in the world is a grass lane
\* without vehicles, logs or train.
C13_SafeZoneIsGrass ==
    \A y \in DOMAIN lanes :
        y >= 0 =>
            /\ lanes[y].type = LANE_GRASS
            /\ lanes[y].vehicles = <<>>
            /\ lanes[y].logs = <<>>
            /\ lanes[y].train = <<>>

\* C13 witness: World.update has generated row 20, behind the rows of
\* World.__init__, for which the stream held the roll of a road
C13_RowTwentyGenerated ==
    /\ 20 \in DOMAIN lanes
    /\ DrawAt(rng, 20).roll >= 30
    /\ player.grid_y > 9

\* C14: a row is generated before it is read: the lane of the player's logical
\* row (the row World.get_lane was asked for in Player.move) and the lane of
\* the player's pixel row (the row the collision and coin queries of a tick
\* read) exist in the lane map.
C14_RowsGeneratedBeforeRead ==
    /\ player.grid_y \in DOMAIN lanes
    /\ Trunc(player.pixel_y, TILE) \in DOMAIN lanes

\* C14 witness: the player has landed on row 21, behind the rows 0 .. 19 of
\* World.__init__, and a tick has run its queries there
C14_LandedBehindFirstRows ==
    /\ pc = "frame"
    /\ ~player.moving
    /\ player.grid_y = 21
    /\ player.pixel_y = 21 * TILE

\* C15: within a session the score never decreases, and every tick leaves
\* score = max_y_reached = the greatest of 0 and -grid_y seen so far (the
\* greater of the score before and -grid_y now); a key leaves it alone, and
\* moving backward never lowers it.
C15_ScoreIsGreatestDepth ==
    [][/\ score' >= score
       /\ pc' = "frame" =>
             /\ score' = max_y_reached'
             /\ score' = Max(score, -player'.grid_y)
       /\ pc' = "events" => score' = score]_vars

\* C15 witness: the player went two rows past row 0 and walked back behind it
C15_WalkedBackFromDepthTwo ==
    /\ pc = "frame"
    /\ score = 2
    /\ player.grid_y = 1
    /\ ~player.moving

----------------------------------------------------------------------------
\* SpecCrash: a road with a truck on row -1; the player walks forward and
\* backward, is run over, keys are pressed on the finished game and SPACE
\* starts the next session; frames of 100 ms

CrashLayouts == {LayoutRoadLeft}

CrashDts == {100}

\* frames go on while the player has been idle for less than this (ms)
MaxCrashIdle == 600

InitCrash == InitWith(CrashLayouts)

NextCrash ==
    \/ KeyUp
    \/ KeyDown
    \/ KeySpace(CrashLayouts)
    \/ FrameIdle(CrashDts, {1}, {3000}, MaxCrashIdle)

SpecCrash == InitCrash /\ [][NextCrash]_vars

\* C17: once the game is over, direction keys and ticks leave the player's
\* grid position, pixel position, the score and coins_collected unchanged;
\* only the restart (a key event that starts a new session) ends that.
C17_DeadPlayerStays ==
    [][game_over =>
          /\ ((\E m \in Directions : KeyDir(m[1], m[2])) \/ pc' = "frame") =>
                /\ game_over'
                /\ player'.grid_x = player.grid_x
                /\ player'.grid_y = player.grid_y
                /\ player'.pixel_x = player.pixel_x
                /\ player'.pixel_y = player.pixel_y
                /\ score' = score
                /\ coins_collected' = coins_collected
          /\ ~game_over' => pc' = "events"]_vars

\* C17 witness: a key has been handled on a finished game, the dead player
\* lying on the road
C17_KeyOnFinishedGame ==
    /\ game_over
    /\ pc = "events"
    /\ ~player.alive
    /\ player.grid_y = FirstWildRow

\* C18: the high score never decreases, and a restart sets it to the greater
\* of the high score and the score of the session that has just finished, so
\* it is at least the final score of every finished session.
C18_HighScoreKept ==
    [][/\ high_score' >= high_score
       /\ (game_over /\ ~game_over') =>
             /\ high_score' = Max(high_score, score)
             /\ high_score' >= score]_vars

\* C18 witness: after a session that ended with score 2 and a restart, a
\* further session has ended with the lower score 1
C18_LowerScoreAfterBest ==
    /\ game_over
    /\ high_score = 2
    /\ score = 1

----------------------------------------------------------------------------
\* SpecSpawn: the start row 2 is a grass lane like any other, drawn with or
\* without a tree on the start column; the player walks forward and backward,
\* frames of 16 ms

\* random.sample returns column 8 among the trees of row 2
LayoutTreeOnStart == GrassRows @@ (StartY :> GrassDraw(<<12, 8>>, 99, 0))

SpawnLayouts == {LayoutTreeOnStart, LayoutGrass}

SpawnDts == {16}

\* frames go on while the player has been idle for less than this (ms)
MaxSpawnIdle == 100

InitSpawn == InitWith(SpawnLayouts)

NextSpawn ==
    \/ KeyUp
    \/ KeyDown
    \/ FrameIdle(SpawnDts, {1}, {3000}, MaxSpawnIdle)

SpecSpawn == InitSpawn /\ [][NextSpawn]_vars

\* C19 (as claimed): an alive player's logical cell is never an obstacle cell
\* of a grass lane, the start cell after a reset included.
C19_NeverOnObstacle ==
    player.alive =>
        ~ /\ lanes[player.grid_y].type = LANE_GRASS
          /\ player.grid_x \in Range(lanes[player.grid_y].obstacles)

\* C20 (as claimed): an accepted move ends with the player at rest exactly on
\* the committed cell: the ticks of the hop leave the logical position as the
\* move set it, and the tick that clears the moving flag leaves
\* pixel_x = grid_x*TILE and pixel_y = grid_y*TILE.
C20_LandsOnCommittedCell ==
    [][(pc' = "frame" /\ player.moving /\ player'.alive) =>
          /\ player'.grid_x = player.grid_x
          /\ player'.grid_y = player.grid_y
          /\ ~player'.moving =>
                /\ player'.pixel_x = player'.grid_x * TILE
                /\ player'.pixel_y = player'.grid_y * TILE]_vars

----------------------------------------------------------------------------
\* SpecHop: the river of row -1 drifting right, the player hopping forward and
\* back between the grass and the logs

HopLayouts == {LayoutRiverRight}

HopDts == {50}

\* frames go on while the player has been idle for less than this (ms)
MaxHopIdle == 500

\* the player is kept on the river and the two rows of grass before it
KeyUpNear == KeyDirWithin(0, -1, FirstWildRow, StartY - 1)

KeyDownNear == KeyDirWithin(0, 1, FirstWildRow, StartY - 1)

InitHop == InitWith(HopLayouts)

NextHop ==
    \/ KeyUpNear
    \/ KeyDownNear
    \/ FrameIdle(HopDts, {1}, {3000}, MaxHopIdle)

SpecHop == InitHop /\ [][NextHop]_vars

\* the ticks of the longest hop: a player a log has left beside the grid hops
\* to a cell up to 49 pixels sideways and 50 pixels forward
MaxHopTicks == ISqrt((TILE - PX) * (TILE - PX) + TILE * TILE) \div (MoveSpeed * PX) + 1

\* C21: an accepted move terminates: an alive player is moving for at most
\* MaxHopTicks - 1 = 5 ticks after the move (idle_time, zero at the move,
\* counts them) and for at most 4 when the hop is straight (the 50-pixel hop:
\* the 5th tick clears the flag); the tick that clears the flag leaves the
\* pixel position on the target; a key pressed while moving changes nothing.
C21_HopEndsWithinFiveTicks ==
    [][/\ (pc' = "frame" /\ player'.alive /\ player'.moving) =>
             /\ player'.idle_time <= (MaxHopTicks - 1) * dt'
             /\ (player'.pixel_x = player'.target_x
                    \/ player'.pixel_y = player'.target_y) =>
                   player'.idle_time <= (HopTicks - 1) * dt'
       /\ (pc' = "frame" /\ player.moving /\ player'.alive /\ ~player'.moving) =>
             /\ player'.pixel_x = player'.target_x
             /\ player'.pixel_y = player'.target_y
       /\ (pc' = "events" /\ player.moving) => player' = player]_vars

\* C21 witness: the 5th tick of a straight hop from the grass of row 0 has put
\* the player at rest on a log of row -1
C21_LandedOnLog ==
    /\ pc = "frame"
    /\ player.alive /\ ~player.moving
    /\ player.grid_y = FirstWildRow
    /\ player.pixel_y = FirstWildRow * TILE
    /\ player.on_log # <<>>
    /\ player.idle_time = HopTicks * dt

\* a hop along both axes is in its 6th tick: it started beside the grid
SixthTickOfHop ==
    /\ pc = "frame"
    /\ player.alive /\ player.moving
    /\ player.idle_time = (MaxHopTicks - 1) * dt

\* C22: an eagle that ends its approach on a tick (phase 0 before, another
\* phase after: the tick on which Eagle.update returns True) is departing
\* after that tick; a departing eagle rises by 5 pixels on every tick, stays
\* in phase 2 and is inactive once above -200; an eagle that became inactive
\* on a finished game stays as it is.
C22_CaughtOnceThenDeparts ==
    [][pc' = "frame" =>
         /\ (eagle.active /\ eagle'.active /\ eagle.phase = 0 /\ eagle'.phase # 0)
               => eagle'.phase = 2
         /\ (eagle.active /\ eagle.phase = 2) =>
               /\ eagle'.phase = 2
               /\ eagle'.y = eagle.y - EagleRise * PX
               /\ eagle'.active = ~(eagle'.y < -EagleExitY * PX)
         /\ (~eagle.active /\ game_over) => eagle' = eagle]_vars

\* C23: on every train lane the warning is active only while no train is
\* present and the countdown timer is below 1.5 s; hence it is off in the
\* state the spawning update leaves and in every state with a train.
C23_WarningOnlyBeforeTrain ==
    \A y \in DOMAIN lanes :
        (lanes[y].type = LANE_TRAIN /\ lanes[y].warning_active) =>
            /\ lanes[y].train = <<>>
            /\ lanes[y].train_timer < WarningTime

\* C23 witness: the update that spawned the train (it still stands at its
\* start position, the timer has run out) has cleared the warning
C23_TrainJustSpawned ==
    /\ TrainPresent
    /\ TrainLane.train[1].x \in {-TILE * 7, WorldWidth * TILE + TILE}
    /\ TrainLane.train_timer <= 0
    /\ ~TrainLane.warning_active

----------------------------------------------------------------------------
\* SpecFar: a road, a river and a train lane far ahead of the player, at the
\* low edge of the window of rows World.update advances

\* the first row below the window of the start row, and the rows behind it
FarRoadRow == StartY - 16

FarRiverRow == StartY - 18

FarTrainRow == StartY - 20

LayoutFar ==
    GrassRows @@ (FarRoadRow :> RoadDraw(45, "car", <<3>>))
        @@ (FarRiverRow :>
               WaterDraw(30, <<LogDraw(0, FALSE, 2), LogDraw(1, TRUE, 1)>>))
        @@ (FarTrainRow :> TrainDraw(2000))

FarLayouts == {LayoutFar}

FarDts == {100}

\* frames go on while the player has been idle for less than this (ms)
MaxFarIdle == 700

InitFar == InitWith(FarLayouts)

NextFar ==
    \/ KeyUp
    \/ FrameIdle(FarDts, {1}, {3000}, MaxFarIdle)

SpecFar == InitFar /\ [][NextFar]_vars

\* C24: a tick of a running game advances the vehicles and logs of the
\* existing lanes of rows r-15 .. r+14, r the truncated pixel row of the
\* player, and leaves every other existing lane (vehicles, logs, train, train
\* timer, warning flag) as it was.
C24_OnlyWindowAdvances ==
    [][(pc' = "frame" /\ ~game_over) =>
         LET r == Trunc(player'.pixel_y, TILE)
         IN \A y \in DOMAIN lanes :
               IF y \in (r - 15) .. (r + 14)
               THEN /\ lanes'[y].vehicles =
                          [i \in 1..Len(lanes[y].vehicles) |->
                              VehicleUpdate(lanes[y].vehicles[i], dt')]
                    /\ lanes'[y].logs =
                          [i \in 1..Len(lanes[y].logs) |->
                              LogUpdate(lanes[y].logs[i], dt')]
               ELSE lanes'[y] = lanes[y]]_vars

\* C24 witness: the player stands one row ahead of the start row; the road
\* that came into the window has moved, the river and the train lane behind it
\* are as they were generated
C24_RoadMovedRiverStill ==
    /\ pc = "frame"
    /\ player.grid_y = StartY - 1 /\ ~player.moving
    /\ FarTrainRow \in DOMAIN lanes
    /\ lanes[FarRoadRow] # CreateLane(FarRoadRow, rng[FarRoadRow])
    /\ lanes[FarRiverRow] = CreateLane(FarRiverRow, rng[FarRiverRow])
    /\ lanes[FarTrainRow] = CreateLane(FarTrainRow, rng[FarTrainRow])
    /\ lanes[FarTrainRow].type = LANE_TRAIN

----------------------------------------------------------------------------
\* the truncated pixel row of the player
PixelRow == Trunc(player.pixel_y, TILE)

\* C25: for an alive player the lanes of rows r-1 and r+1, r the truncated
\* pixel row, return none and leave the log association as it is, and what
\* World.check_collisions returns and leaves is what the lane of row r does;
\* a player who was squashed is overlapped by a vehicle of the lane of row r
\* (game and player stand still from then on), a player who splashed has the
\* river in row r.
C25_OnlyPixelRowDecides ==
    /\ player.alive =>
          /\ \A y \in {PixelRow - 1, PixelRow + 1} \cap DOMAIN lanes :
                LaneCheckCollision(lanes[y], player) =
                    [result |-> "none", on_log |-> player.on_log]
          /\ PixelRow \in DOMAIN lanes =>
                WorldCheckCollisions(lanes, player) =
                    LaneCheckCollision(lanes[PixelRow], player)
    /\ player.death_type = "squash" =>
          \/ AnyVehicleHits(lanes[PixelRow], player.pixel_x, player.pixel_y)
          \/ /\ lanes[PixelRow].train # <<>>
             /\ CollidesWith(lanes[PixelRow].train[1],
                             player.pixel_x, player.pixel_y)
    /\ player.death_type = "splash" => lanes[PixelRow].type = LANE_WATER

\* C25 witness: an alive player in the middle of a hop reaches into row r-1
\* where a vehicle of that row overlaps it
C25_OverlapsVehicleOfNextRow ==
    /\ player.alive
    /\ player.moving
    /\ \E i \in 1..Len(lanes[PixelRow - 1].vehicles) :
          CollidesWith(lanes[PixelRow - 1].vehicles[i],
                       player.pixel_x, player.pixel_y)

----------------------------------------------------------------------------
\* The session in the middle of a tick of d ms of a running game, after
\* player.update, world.update and the collision, coin and carried-off steps
\* of Game.update, before the eagle steps (no train lane in the world)
AfterCollisions(d) ==
    LET p1 == PlayerUpdate(player, lanes, d)
        w1 == WorldUpdate(lanes, rng, d, p1.pixel_y, 1, 3000)
    IN CarriedOffStep(CollectStep(ResolveCollision(
           [Session EXCEPT !.player = p1, !.world = w1])))

\* C26 (as claimed): Player.die is applied at most once in a session: a dead
\* player keeps its death cause until the game is restarted, and a player the
\* collision steps of a tick have killed ends that tick with the cause they
\* gave.
C26_DiesOnce ==
    [][/\ (~player.alive /\ ~player'.alive) =>
             player'.death_type = player.death_type
       /\ (pc' = "frame" /\ ~game_over /\ ~AfterCollisions(dt').player.alive) =>
             player'.death_type = AfterCollisions(dt').player.death_type]_vars

----------------------------------------------------------------------------
\* C27 (as claimed): an alive player always has a column of the world,
\* 0 <= grid_x <= width - 1, also while a log carries it toward an edge.
C27_AliveWithinColumns ==
    player.alive => player.grid_x \in 0 .. (WorldWidth - 1)

----------------------------------------------------------------------------
\* C28: in every state (after a reset, at the end of a tick, and after the
\* keys in between) the game is over exactly if the player is not alive.
C28_GameOverIffDead ==
    game_over <=> ~player.alive

\* C28 witness: the game was restarted after a session that scored, and the
\* player of the new session has been run over
C28_DeadAgainAfterRestart ==
    /\ pc = "frame"
    /\ high_score > 0
    /\ ~player.alive
    /\ game_over

----------------------------------------------------------------------------
\* C29: an alive player has a log association only if the lane of its
\* truncated pixel row is water, the log is one of that lane and the player's
\* centre lies within the tolerance span of that log; on a lane of any other
\* type the association is cleared.
C29_LogAssociationMatchesLane ==
    player.alive =>
        /\ player.on_log # <<>> =>
              /\ lanes[PixelRow].type = LANE_WATER
              /\ player.on_log[1] = PixelRow
              /\ player.on_log[2] \in 1..Len(lanes[PixelRow].logs)
              /\ PlayerOnLog(LogOf(lanes, player.on_log),
                             player.pixel_x, player.pixel_y)
        /\ lanes[PixelRow].type # LANE_WATER => player.on_log = <<>>

\* C29 witness: a player a log has carried sideways has hopped on to the
\* grass behind the river and has no log any more
C29_LogLeftBehind ==
    /\ pc = "frame"
    /\ player.alive
    /\ PixelRow = FirstWildRow - 1
    /\ lanes[PixelRow].type = LANE_GRASS
    /\ player.pixel_x # StartX * TILE
    /\ player.on_log = <<>>

====
